---- MODULE Spec2Model ----
(***************************************************************************)
(* Model of the portfolio web application: app.py (the data load at import *)
(* time and the Flask route handlers) and config/config.py (the            *)
(* configuration classes and get_config).  app.py never imports the config *)
(* package, so the two halves only share the process environment.          *)
(***************************************************************************)
EXTENDS Integers, Sequences, FiniteSets, TLC

VARIABLES
    environ,          \* os.environ: FLASK_ENV and SECRET_KEY
    fs,               \* the files on disk, by path
    phase,            \* "init" | "serving" | "crashed" : the app.py process
    debug,            \* app.debug, TRUE when started through __main__
    PORTFOLIO_DATA,   \* module global of app.py
    data_path,        \* the path load_portfolio_data read
    loads,            \* number of calls of load_portfolio_data
    request,          \* the request handled last
    response,         \* the response sent for it
    imported,         \* config.config has been imported
    SECRET_KEY,       \* Config.SECRET_KEY, the class attribute
    call,             \* the last get_config call and its result
    init_app          \* outcome of the last ProductionConfig.init_app call

vars == <<environ, fs, phase, debug, PORTFOLIO_DATA, data_path, loads,
          request, response, imported, SECRET_KEY, call, init_app>>

appVars == <<fs, phase, debug, PORTFOLIO_DATA, data_path, loads, request, response>>

cfgVars == <<imported, SECRET_KEY, call, init_app>>

----------------------------------------------------------------------------
(* Bounds *)

MaxProjects == 2

MaxId == 1

----------------------------------------------------------------------------
(* Python values *)

\* Python's None, also what a variable of os.environ that is not set reads as
None == "<None>"

PyNone == [type |-> "None"]

PyBool(b) == [type |-> "bool", b |-> b]

PyInt(n) == [type |-> "int", n |-> n]

PyStr(s) == [type |-> "str", s |-> s]

PyList(items) == [type |-> "list", items |-> items]

PyDict(fields) == [type |-> "dict", fields |-> fields]

\* bool(v), what `not data` and `x or y` test
Truthy(v) ==
    CASE v.type = "None" -> FALSE
      [] v.type = "bool" -> v.b
      [] v.type = "int"  -> v.n # 0
      [] v.type = "str"  -> v.s # ""
      [] v.type = "list" -> Len(v.items) > 0
      [] v.type = "dict" -> v.fields # {}

\* bool(s) of an optional string, None being falsy
TruthyStr(s) == s # None /\ s # ""

----------------------------------------------------------------------------
(* Portfolio documents *)

Titles == {"a", "b"}

Ids == 0..MaxId

\* entries of a projects list; an entry of the stored JSON may lack "id"
Projects == [id : Ids, title : Titles] \cup [title : {"a"}]

ProjectLists == UNION {[1..n -> Projects] : n \in 0..MaxProjects}

\* documents a data file can hold; the loader validates no schema
Documents == [name : {"Larie"}, projects : ProjectLists] \cup [name : {"Larie"}]

get_default_data == [name |-> "Your Name", projects |-> <<>>]

\* the shape the data model gives a PortfolioDocument
IsPortfolioDocument(d) ==
    /\ "projects" \in DOMAIN d
    /\ \A i \in 1..Len(d.projects) : "id" \in DOMAIN d.projects[i]

----------------------------------------------------------------------------
(* Files *)

DefaultPath == "data/portfolio_data.json"

FixturePath == "tests/test_portfolio_data.json"

Paths == {DefaultPath, FixturePath}

Absent == [kind |-> "absent"]

Garbage == [kind |-> "garbage"]

JsonFile(d) == [kind |-> "json", doc |-> d]

FixtureDoc == [name |-> "Fixture", projects |-> <<[id |-> 1, title |-> "a"]>>]

InitialContents == {Absent, Garbage} \cup {JsonFile(d) : d \in Documents}

ChangedContents == {Absent, JsonFile(FixtureDoc)}

os_path_exists(files, path) == files[path].kind # "absent"

\* json.load: the parsed value, or a raise on text that is not JSON
json_load(content) ==
    IF content.kind = "json"
    THEN [kind |-> "return", value |-> content.doc]
    ELSE [kind |-> "raise", exc |-> "JSONDecodeError"]

----------------------------------------------------------------------------
(* app.py: the data load *)

\* os.path.join('data', 'portfolio_data.json')
portfolio_data_path == DefaultPath

\* variant: the fallback document is returned whether or not the file exists
load_portfolio_data_default_only(files) ==
    [kind |-> "return", value |-> [name |-> "Your Name", projects |-> <<>>]]

\* load_portfolio_data(): the value returned, or the exception that escapes
load_portfolio_data(files) ==
    IF os_path_exists(files, portfolio_data_path)
    THEN json_load(files[portfolio_data_path])
    ELSE [kind |-> "return", value |-> get_default_data]

----------------------------------------------------------------------------
(* app.py: responses *)

\* jsonify(value): a 200 JSON response carrying the value
jsonify(value) == [status |-> 200, mimetype |-> "application/json", body |-> value]

\* `return response, code`
with_status(resp, code) == [resp EXCEPT !.status = code]

Return(resp) == [kind |-> "return", resp |-> resp]

Raise(exc) == [kind |-> "raise", exc |-> exc]

Abort(code) == [kind |-> "http", code |-> code]

ProjectNotFound == with_status(jsonify([dict |-> [error |-> "Project not found"]]), 404)

NoDataReceived ==
    with_status(jsonify([dict |-> [status |-> "error", message |-> "No data received"]]), 400)

InquiryReceived ==
    with_status(jsonify([dict |-> [status |-> "success",
                  message |-> "Your inquiry has been received. Thank you!"]]), 200)

\* @app.errorhandler(404)
not_found == with_status(jsonify([dict |-> [error |-> "Not found"]]), 404)

\* @app.errorhandler(500)
internal_error == with_status(jsonify([dict |-> [error |-> "Internal server error"]]), 500)

----------------------------------------------------------------------------
(* app.py: the route handlers, as functions of PORTFOLIO_DATA and the input *)

\* index(): render_template either renders the document or raises
index(data) ==
    {Return([status |-> 200, mimetype |-> "text/html", body |-> [html |-> data]]),
     Raise("TemplateError")}

\* variant: the list is returned newest first
get_projects_reversed(data) ==
    IF "projects" \in DOMAIN data
    THEN [kind |-> "return",
          resp |-> [status |-> 200, mimetype |-> "application/json",
                    body |-> [list |-> [i \in 1..Len(data.projects) |->
                                 data.projects[Len(data.projects) + 1 - i]]]]]
    ELSE [kind |-> "raise", exc |-> "KeyError"]

\* get_projects(): PORTFOLIO_DATA['projects'] raises KeyError without the key
get_projects(data) ==
    IF "projects" \in DOMAIN data
    THEN Return(jsonify([list |-> data.projects]))
    ELSE Raise("KeyError")

\* variant: the scan keeps the last entry whose id matches
RECURSIVE next_match_last(_, _, _)
next_match_last(projects, project_id, i) ==
    IF i > Len(projects) THEN [kind |-> "none"]
    ELSE IF "id" \notin DOMAIN projects[i] THEN [kind |-> "raise"]
    ELSE LET rest == next_match_last(projects, project_id, i + 1) IN
         IF rest.kind # "none" THEN rest
         ELSE IF projects[i].id = project_id
              THEN [kind |-> "found", project |-> projects[i]]
              ELSE rest

\* next((p for p in projects if p['id'] == project_id), None), scanning from
\* index i: the first entry whose id matches, None, or the KeyError of p['id']
RECURSIVE next_match(_, _, _)
next_match(projects, project_id, i) ==
    IF i > Len(projects) THEN [kind |-> "none"]
    ELSE IF "id" \notin DOMAIN projects[i] THEN [kind |-> "raise"]
    ELSE IF projects[i].id = project_id THEN [kind |-> "found", project |-> projects[i]]
    ELSE next_match(projects, project_id, i + 1)

\* get_project(project_id)
get_project(data, project_id) ==
    IF "projects" \notin DOMAIN data THEN Raise("KeyError")
    ELSE LET m == next_match(data.projects, project_id, 1) IN
         CASE m.kind = "raise" -> Raise("KeyError")
           [] m.kind = "none"  -> Return(ProjectNotFound)
           [] m.kind = "found" ->
                IF DOMAIN m.project # {}            \* `if project:`
                THEN Return(jsonify([dict |-> m.project]))
                ELSE Return(ProjectNotFound)

\* request bodies of POST /api/contact
JsonValues ==
    {PyNone, PyBool(FALSE), PyInt(0), PyStr(""), PyStr("hi"),
     PyList(<<>>), PyDict({}), PyDict({<<"name", "A">>})}

NoBody == [kind |-> "absent"]

BadBody == [kind |-> "unparseable"]

JsonBody(v) == [kind |-> "json", value |-> v]

Bodies == {NoBody, BadBody} \cup {JsonBody(v) : v \in JsonValues}

\* request.get_json(): without a JSON content type it returns None or aborts
\* with 415, depending on the Flask release; a JSON content type with no
\* parseable body aborts with 400; otherwise the parsed value is returned
get_json(is_json, body) ==
    IF ~is_json THEN {[kind |-> "value", data |-> PyNone], Abort(415)}
    ELSE IF body.kind = "json" THEN {[kind |-> "value", data |-> body.value]}
    ELSE {Abort(400)}

\* variant: only a missing body is refused (`if data is None`)
contact_none_only(got) ==
    IF got.kind # "value" THEN got
    ELSE IF got.data = PyNone THEN [kind |-> "return", resp |-> NoDataReceived]
    ELSE [kind |-> "return", resp |-> InquiryReceived]

\* contact(), given what request.get_json() produced
contact(got) ==
    IF got.kind # "value" THEN got
    ELSE IF ~Truthy(got.data) THEN Return(NoDataReceived)
    ELSE Return(InquiryReceived)

----------------------------------------------------------------------------
(* Flask: from a handler's outcome to the response *)

\* default response of an HTTPException with no registered handler
default_http_response(code) ==
    [status |-> code, mimetype |-> "text/html", body |-> [http_error |-> code]]

\* page of the interactive debugger, which shows the traceback
debugger_page(exc) ==
    [status |-> 500, mimetype |-> "text/html", body |-> [traceback |-> exc]]

\* an HTTPException goes to its registered handler (404, 500) or to its
\* default response; any other exception goes to the 500 handler, unless
\* the app runs with debug=True, where it propagates to the debugger
make_response(outcome, dbg) ==
    CASE outcome.kind = "return" -> outcome.resp
      [] outcome.kind = "http" ->
            IF outcome.code = 404 THEN not_found
            ELSE IF outcome.code = 500 THEN internal_error
            ELSE default_http_response(outcome.code)
      [] outcome.kind = "raise" ->
            IF dbg THEN debugger_page(outcome.exc) ELSE internal_error

----------------------------------------------------------------------------
(* config/config.py *)

DevSecret == "dev-secret-key-change-this-in-production-12345"

\* os.environ.get(key, default)
environ_get(env, key, default) == IF env[key] = None THEN default ELSE env[key]

\* Config.SECRET_KEY, evaluated when the class body runs at import
Config_SECRET_KEY(env) ==
    IF TruthyStr(environ_get(env, "SECRET_KEY", None))
    THEN environ_get(env, "SECRET_KEY", None)
    ELSE DevSecret

ConfigClasses == {"DevelopmentConfig", "ProductionConfig", "TestingConfig"}

\* the `config` dictionary
config ==
    [development |-> "DevelopmentConfig", production |-> "ProductionConfig",
     testing |-> "TestingConfig", default |-> "DevelopmentConfig"]

\* variant: the dictionary is indexed (config[name]), so an unknown name raises
get_config_strict(config_name, env) ==
    LET name == IF config_name = None
                THEN environ_get(env, "FLASK_ENV", "development")
                ELSE config_name
    IN  IF name \in DOMAIN config THEN config[name] ELSE "KeyError"

\* get_config(config_name=None)
get_config(config_name, env) ==
    LET name == IF config_name = None
                THEN environ_get(env, "FLASK_ENV", "development")
                ELSE config_name
    IN  IF name \in DOMAIN config THEN config[name] ELSE "DevelopmentConfig"

\* cls.DATA_FILE: Config.DATA_FILE, overridden by TestingConfig
DATA_FILE(cls) == IF cls = "TestingConfig" THEN FixturePath ELSE DefaultPath

\* cls.init_app(app): only ProductionConfig checks the environment
init_app_result(cls, env) ==
    IF cls = "ProductionConfig" /\ ~TruthyStr(environ_get(env, "SECRET_KEY", None))
    THEN "ValueError"
    ELSE "ok"

----------------------------------------------------------------------------
(* Initial states *)

FlaskEnvValues == {None, "", "development", "production", "testing", "default", "staging"}

SecretValues == {None, "", "s3cret", "0ther"}

ConfigNames == {None, "development", "production", "testing", "default", "staging", ""}

\* environments the web process is started in
AppEnvirons ==
    {[FLASK_ENV |-> None, SECRET_KEY |-> None],
     [FLASK_ENV |-> "production", SECRET_KEY |-> None],
     [FLASK_ENV |-> "production", SECRET_KEY |-> "s3cret"],
     [FLASK_ENV |-> "testing", SECRET_KEY |-> None]}

NotLoaded == [loaded |-> FALSE]

NoRequest == [op |-> "none"]

NoResponse == [status |-> 0]

NoCall == [op |-> "none"]

InitAppVars ==
    /\ phase = "init"
    /\ debug = FALSE
    /\ PORTFOLIO_DATA = NotLoaded
    /\ data_path = None
    /\ loads = 0
    /\ request = NoRequest
    /\ response = NoResponse

InitCfgVars ==
    /\ imported = FALSE
    /\ SECRET_KEY = None
    /\ call = NoCall
    /\ init_app = NoCall

Init ==
    /\ environ \in AppEnvirons
    /\ \E c \in InitialContents :
          fs = [p \in Paths |-> IF p = DefaultPath THEN c ELSE JsonFile(FixtureDoc)]
    /\ InitAppVars
    /\ InitCfgVars

InitConfig ==
    /\ environ \in [FLASK_ENV : FlaskEnvValues, SECRET_KEY : SecretValues]
    /\ fs = [p \in Paths |-> IF p = DefaultPath THEN Absent ELSE JsonFile(FixtureDoc)]
    /\ InitAppVars
    /\ InitCfgVars

----------------------------------------------------------------------------
(* The web process: app.py *)

\* module import (lines 6-30) and, in mode "main", app.run(debug=True)
Startup ==
    /\ phase = "init"
    /\ \E mode \in {"main", "wsgi"} :
         LET loaded == load_portfolio_data(fs) IN
         /\ loads' = loads + 1
         /\ data_path' = portfolio_data_path
         /\ IF loaded.kind = "return"
            THEN /\ PORTFOLIO_DATA' = loaded.value
                 /\ phase' = "serving"
                 /\ debug' = (mode = "main")
            ELSE /\ phase' = "crashed"
                 /\ UNCHANGED <<PORTFOLIO_DATA, debug>>
    /\ UNCHANGED <<environ, fs, request, response>>
    /\ UNCHANGED cfgVars

\* one request: the handler's outcome and the response Flask makes of it
Serve(req, outcome) ==
    /\ request' = [req EXCEPT !.outcome = outcome.kind]
    /\ response' = make_response(outcome, debug)
    /\ UNCHANGED <<environ, fs, phase, debug, PORTFOLIO_DATA, data_path, loads>>
    /\ UNCHANGED cfgVars

Index ==
    /\ phase = "serving"
    /\ \E outcome \in index(PORTFOLIO_DATA) :
          Serve([op |-> "index", outcome |-> ""], outcome)

\* variant: the handler reloads the document on every request
GetProjectsReloading ==
    /\ phase = "serving"
    /\ LET loaded == load_portfolio_data(fs)
           data == IF loaded.kind = "return" THEN loaded.value ELSE PORTFOLIO_DATA
       IN  /\ PORTFOLIO_DATA' = data
           /\ request' = [op |-> "get_projects", outcome |-> get_projects(data).kind]
           /\ response' = make_response(get_projects(data), debug)
    /\ UNCHANGED <<environ, fs, phase, debug, data_path, loads>>
    /\ UNCHANGED cfgVars

GetProjects ==
    /\ phase = "serving"
    /\ Serve([op |-> "get_projects", outcome |-> ""], get_projects(PORTFOLIO_DATA))

RequestIds == 0..(MaxId + 1)

GetProject ==
    /\ phase = "serving"
    /\ \E project_id \in RequestIds :
          Serve([op |-> "get_project", id |-> project_id, outcome |-> ""],
                get_project(PORTFOLIO_DATA, project_id))

Contact ==
    /\ phase = "serving"
    /\ \E is_json \in BOOLEAN, body \in Bodies :
          \E got \in get_json(is_json, body) :
              Serve([op |-> "contact", is_json |-> is_json, body |-> body,
                     got |-> got, outcome |-> ""],
                    contact(got))

UnmatchedPaths == {"/no-such-path", "/api/projects/-1"}

\* no route matches: the router raises NotFound
Unmatched ==
    /\ phase = "serving"
    /\ \E path \in UnmatchedPaths :
          Serve([op |-> "unmatched", path |-> path, outcome |-> ""], Abort(404))

\* the data file is rewritten or removed while the server runs
FileChange ==
    /\ phase = "serving"
    /\ \E c \in ChangedContents :
          /\ c # fs[DefaultPath]
          /\ fs' = [fs EXCEPT ![DefaultPath] = c]
    /\ UNCHANGED <<environ, phase, debug, PORTFOLIO_DATA, data_path, loads, request, response>>
    /\ UNCHANGED cfgVars

Next ==
    \/ Startup
    \/ Index
    \/ GetProjects
    \/ GetProject
    \/ Contact
    \/ Unmatched
    \/ FileChange

Spec == Init /\ [][Next]_vars

----------------------------------------------------------------------------
(* The configuration module: config/config.py *)

\* the environment is set or changed, before or after the import
SetEnv ==
    /\ \E key \in {"FLASK_ENV", "SECRET_KEY"} :
         \E v \in (IF key = "FLASK_ENV" THEN FlaskEnvValues ELSE SecretValues) :
            /\ v # environ[key]
            /\ environ' = [environ EXCEPT ![key] = v]
    /\ UNCHANGED appVars
    /\ UNCHANGED cfgVars

\* import config.config: the class bodies run once
ImportConfig ==
    /\ ~imported
    /\ imported' = TRUE
    /\ SECRET_KEY' = Config_SECRET_KEY(environ)
    /\ UNCHANGED <<environ, call, init_app>>
    /\ UNCHANGED appVars

GetConfig ==
    /\ imported
    /\ \E name \in ConfigNames :
          call' = [op |-> "get_config", name |-> name, flask_env |-> environ.FLASK_ENV,
                   result |-> get_config(name, environ)]
    /\ UNCHANGED <<environ, imported, SECRET_KEY, init_app>>
    /\ UNCHANGED appVars

InitApp ==
    /\ imported
    /\ \E cls \in ConfigClasses :
          init_app' = [op |-> "init_app", cls |-> cls, secret |-> environ.SECRET_KEY,
                       result |-> init_app_result(cls, environ)]
    /\ UNCHANGED <<environ, imported, SECRET_KEY, call>>
    /\ UNCHANGED appVars

NextConfig ==
    \/ SetEnv
    \/ ImportConfig
    \/ GetConfig
    \/ InitApp

SpecConfig == InitConfig /\ [][NextConfig]_vars

----------------------------------------------------------------------------
(* Properties of the web process, checked under Spec *)

JsonResponse(code, value) ==
    [status |-> code, mimetype |-> "application/json", body |-> value]

\* C1: for a loaded PortfolioDocument and a requested id, get_project answers
\* 200 with the first project in stored order whose id equals the requested
\* id, or 404 {"error": "Project not found"} when no project has that id, and
\* nothing else.
C1_GetProjectFirstMatchOr404 ==
    (request.op = "get_project" /\ IsPortfolioDocument(PORTFOLIO_DATA)) =>
        LET ps == PORTFOLIO_DATA.projects
            hits == {i \in 1..Len(ps) : ps[i].id = request.id}
        IN  IF hits = {}
            THEN response = JsonResponse(404, [dict |-> [error |-> "Project not found"]])
            ELSE LET first == CHOOSE i \in hits : \A j \in hits : i <= j
                 IN  response = JsonResponse(200, [dict |-> ps[first]])

\* a lookup answered 200 from a document holding the requested id twice
C1_Witness ==
    /\ request.op = "get_project"
    /\ IsPortfolioDocument(PORTFOLIO_DATA)
    /\ Len(PORTFOLIO_DATA.projects) = 2
    /\ PORTFOLIO_DATA.projects[1].id = request.id
    /\ PORTFOLIO_DATA.projects[2].id = request.id
    /\ PORTFOLIO_DATA.projects[1] # PORTFOLIO_DATA.projects[2]
    /\ response.status = 200

\* C2 as stated, for the requests whose body reaches the handler as parsed
\* JSON: a JSON body of any shape is acknowledged with 200, and the answer is
\* 400 "No data received" if and only if the body is absent or cannot be
\* parsed as JSON.
C2_AsStated ==
    (request.op = "contact" /\ request.is_json /\ request.got.kind = "value") =>
        LET missing == request.body.kind \in {"absent", "unparseable"} IN
        /\ (response = JsonResponse(400, [dict |-> [status |-> "error",
                            message |-> "No data received"]])) <=> missing
        /\ ~missing => response = JsonResponse(200, [dict |-> [status |-> "success",
                            message |-> "Your inquiry has been received. Thank you!"]])

\* parsed bodies that Python counts as false
EmptyValues ==
    {PyNone, PyBool(FALSE), PyInt(0), PyStr(""), PyList(<<>>), PyDict({})}

\* C2 amended: contact answers 400 "No data received" exactly when
\* request.get_json() returns a value that is None or empty ({}, [], "", 0,
\* false, null), and answers 200 with the fixed acknowledgment exactly when
\* it returns any other value.
C2_EmptyBodyRefused ==
    request.op = "contact" =>
        /\ (response = JsonResponse(400, [dict |-> [status |-> "error",
                            message |-> "No data received"]]))
              <=> (request.got.kind = "value" /\ request.got.data \in EmptyValues)
        /\ (response = JsonResponse(200, [dict |-> [status |-> "success",
                            message |-> "Your inquiry has been received. Thank you!"]]))
              <=> (request.got.kind = "value" /\ request.got.data \notin EmptyValues)

\* an empty JSON object was posted and refused
C2_Witness ==
    /\ request.op = "contact"
    /\ request.is_json
    /\ request.body = JsonBody(PyDict({}))
    /\ response.status = 400

\* C3: with the production variant selected and no secret set, a
\* configuration error stops the process before it serves requests.
C3_NoServingWithoutSecret ==
    (get_config(None, environ) = "ProductionConfig"
        /\ environ.SECRET_KEY \in {None, ""}) => phase # "serving"

\* C5: load_portfolio_data returns the parsed content of the data file when
\* the file exists, and the built-in default document (name "Your Name", no
\* projects) when it does not.
C5_LoadReturnsFileOrDefault ==
    [][(phase = "init" /\ phase' # "init") =>
          /\ fs[DefaultPath].kind = "json" =>
                (phase' = "serving" /\ PORTFOLIO_DATA' = fs[DefaultPath].doc)
          /\ fs[DefaultPath].kind = "absent" =>
                (phase' = "serving"
                   /\ PORTFOLIO_DATA' = [name |-> "Your Name", projects |-> <<>>])]_vars

\* the process has loaded a stored document with projects in it
C5_Witness ==
    /\ phase = "serving"
    /\ request = NoRequest
    /\ fs[DefaultPath].kind = "json"
    /\ PORTFOLIO_DATA = fs[DefaultPath].doc
    /\ "projects" \in DOMAIN PORTFOLIO_DATA
    /\ Len(PORTFOLIO_DATA.projects) > 0

\* C6: the path the document is loaded from is the DATA_FILE of the variant
\* selected at startup: the default path under development and production,
\* the test fixture path under testing.
C6_LoadsFromConfiguredPath ==
    phase = "serving" => data_path = DATA_FILE(get_config(None, environ))

\* C7: for a loaded PortfolioDocument, after any earlier requests,
\* get_projects answers 200 with the document's projects, same elements in
\* the same order.
C7_GetProjectsReturnsStoredList ==
    (request.op = "get_projects" /\ IsPortfolioDocument(PORTFOLIO_DATA)) =>
        response = JsonResponse(200, [list |-> PORTFOLIO_DATA.projects])

\* the list was served from a document with two different projects
C7_Witness ==
    /\ request.op = "get_projects"
    /\ IsPortfolioDocument(PORTFOLIO_DATA)
    /\ Len(PORTFOLIO_DATA.projects) = 2
    /\ PORTFOLIO_DATA.projects[1] # PORTFOLIO_DATA.projects[2]
    /\ response.status = 200
    /\ response.body.list = PORTFOLIO_DATA.projects

\* C8: a request matching no route is answered 404 {"error": "Not found"},
\* and a fault raised in a handler and not handled there is answered 500
\* {"error": "Internal server error"}, with no detail of the fault.
C8_ErrorMapping ==
    /\ request.op = "unmatched" =>
          response = JsonResponse(404, [dict |-> [error |-> "Not found"]])
    /\ (request.op # "none" /\ request.outcome = "raise") =>
          response = JsonResponse(500, [dict |-> [error |-> "Internal server error"]])

\* C9: once the process serves, PORTFOLIO_DATA is the document of the one
\* load at start: no request and no change of the data file alters it, and
\* the load never runs again.
C9_DocumentNeverChanges ==
    [][phase = "serving" =>
          (PORTFOLIO_DATA' = PORTFOLIO_DATA /\ loads = 1 /\ loads' = 1)]_vars

\* the data file was removed after the load and a request was then served
\* from the document loaded at start
C9_Witness ==
    /\ phase = "serving"
    /\ fs[DefaultPath] = Absent
    /\ PORTFOLIO_DATA # get_default_data
    /\ request.op \in {"index", "get_projects", "get_project", "contact"}
    /\ loads = 1

----------------------------------------------------------------------------
(* Properties of the configuration module, checked under SpecConfig *)

\* C4: get_config(name) returns the variant registered for name; without a
\* name it uses FLASK_ENV, or "development" when that is unset; a name that is
\* not registered yields the development variant, and the call never fails.
C4_GetConfigLookup ==
    call.op = "get_config" =>
        LET name == IF call.name # None THEN call.name
                    ELSE IF call.flask_env # None THEN call.flask_env
                    ELSE "development"
        IN  call.result = CASE name = "production" -> "ProductionConfig"
                            [] name = "testing"    -> "TestingConfig"
                            [] OTHER               -> "DevelopmentConfig"

\* get_config() was called without a name while FLASK_ENV named no variant
C4_Witness ==
    /\ call.op = "get_config"
    /\ call.name = None
    /\ call.flask_env = "staging"
    /\ call.result = "DevelopmentConfig"

\* C10: whenever ProductionConfig.init_app completes without raising, the
\* SECRET_KEY the configuration holds is the externally supplied secret and
\* not the hard-coded development secret, in every order of import, changes
\* of the environment and init_app calls.
C10_NoDevSecretAfterInitApp ==
    (init_app.op = "init_app" /\ init_app.cls = "ProductionConfig"
        /\ init_app.result = "ok") =>
        (SECRET_KEY # DevSecret /\ SECRET_KEY = init_app.secret)

====
